---- MODULE Spec2Model ----
(***************************************************************************)
(* spannerdef: a declarative schema reconciler for Cloud Spanner.          *)
(*                                                                         *)
(* A Go string that holds SQL text is a sequence of tokens; a Go string    *)
(* that holds a name, a type or an expression is one token.  A Go map is   *)
(* a function on its key set; ranging over a map visits the keys in an     *)
(* order the runtime chooses, which every operator below takes as an       *)
(* argument and every action draws with \E.                                *)
(***************************************************************************)
EXTENDS Integers, Sequences, FiniteSets, TLC

(***************************************************************************)
(* Bounds of the model.                                                    *)
(***************************************************************************)
NumTables == 2
NumIndexes == 1
NumDepTables == 3
MaxDeps == 3
NumAlterTables == 3
MaxConstraints == 3

(***************************************************************************)
(* Text and map helpers.                                                   *)
(***************************************************************************)
EmptyMap == [k \in {} |-> k]

Put(m, k, v) == [x \in (DOMAIN m) \cup {k} |-> IF x = k THEN v ELSE m[x]]

Remove(m, k) == [x \in (DOMAIN m) \ {k} |-> m[x]]

\* every order in which a range loop can visit the key set S
Orders(S) == {f \in [1..Cardinality(S) -> S] : \A i, j \in 1..Cardinality(S) : f[i] = f[j] => i = j}

RECURSIVE Flatten(_)
Flatten(ss) == IF Len(ss) = 0 THEN <<>> ELSE Head(ss) \o Flatten(Tail(ss))

\* strings.Join(elems, sep) where sep is one token
RECURSIVE Join(_, _)
Join(elems, sep) ==
    IF Len(elems) = 0 THEN <<>>
    ELSE IF Len(elems) = 1 THEN <<elems[1]>>
    ELSE <<elems[1], sep>> \o Join(Tail(elems), sep)

\* strings.Contains(s, sub) on token sequences
Contains(s, sub) ==
    \E i \in 1..(Len(s) - Len(sub) + 1) : SubSeq(s, i, i + Len(sub) - 1) = sub

\* position of the first occurrence of token t in s at or after i, 0 if none
RECURSIVE IndexFrom(_, _, _)
IndexFrom(s, t, i) ==
    IF i > Len(s) THEN 0
    ELSE IF s[i] = t THEN i
    ELSE IndexFrom(s, t, i + 1)

\* the names of the model in lexicographic order (Go's < on strings)
SortedNames ==
    <<"CK_T1_0", "CK_T1_1", "CK_T1_2", "CK_T1_3", "CK_T1_4", "CK_T2_0", "CK_T2_1",
      "FK_T1_0", "FK_T1_1", "FK_T1_2", "FK_T1_3", "FK_T1_4", "FK_T2_0", "FK_T2_1",
      "I1", "I2", "I3", "T1", "T2", "T3", "T4", "T5", "a", "b", "c", "ck", "fk", "id", "k1", "k2", "x">>

Rank(n) == IF \E i \in 1..Len(SortedNames) : SortedNames[i] = n
           THEN CHOOSE i \in 1..Len(SortedNames) : SortedNames[i] = n
           ELSE 0

StrLess(a, b) == Rank(a) < Rank(b)

\* sort.Strings / sort.Slice: the one sequence that lists S in increasing order
SortBy(S, Less(_, _)) ==
    CHOOSE f \in Orders(S) : \A i, j \in 1..Cardinality(S) : i < j => Less(f[i], f[j])

(***************************************************************************)
(* The schema model: Schema, Table, Column, Index, Constraint.             *)
(***************************************************************************)
EmptySchema == [Tables |-> EmptyMap, Indexes |-> EmptyMap]

Paren(e) == "(" \o e \o ")"

\* the Column that the column loop of processCreateTable builds at position i
ColumnOf(col, i) ==
    [Name |-> col.Name,
     Type |-> col.Type,
     NotNull |-> col.NotNull,
     Default |-> IF col.DefaultExpr # "" THEN Paren(col.DefaultExpr) ELSE "",
     Options |-> IF col.PrimaryKey THEN "PRIMARY KEY" ELSE "",
     Order |-> i]

\* table.Columns after the column loop of processCreateTable: a later column
\* of the same name overwrites an earlier one, Order is the position
ColumnsOf(stmt) ==
    LET n == Len(stmt.Columns)
        names == {stmt.Columns[i].Name : i \in 1..n}
        last(name) == CHOOSE i \in 1..n :
                          /\ stmt.Columns[i].Name = name
                          /\ \A j \in 1..n : stmt.Columns[j].Name = name => j <= i
    IN [name \in names |-> ColumnOf(stmt.Columns[last(name)], last(name) - 1)]

\* the constraint entry that the table-constraint loop stores for tc under name
ConstraintOf(tc, name) ==
    IF tc.Kind = "Check"
    THEN [Name |-> name, Type |-> "CHECK", Expression |-> Paren(tc.Expr),
          Columns |-> <<>>, ReferenceTable |-> "", ReferenceColumns |-> <<>>, OnDelete |-> ""]
    ELSE [Name |-> name, Type |-> "FOREIGN KEY", Expression |-> "",
          Columns |-> tc.Columns, ReferenceTable |-> tc.ReferenceTable,
          ReferenceColumns |-> tc.ReferenceColumns, OnDelete |-> tc.OnDelete]

\* the name the loop gives to tc when constraints holds the entries stored so far
ConstraintNameOf(tc, tableName, constraints) ==
    IF tc.Name # "" THEN tc.Name
    ELSE (IF tc.Kind = "Check" THEN "CK_" ELSE "FK_")
             \o tableName \o "_" \o ToString(Cardinality(DOMAIN constraints))

\* the table-constraint loop of processCreateTable from position i on
RECURSIVE ConstraintsOf(_, _, _, _)
ConstraintsOf(tcs, i, tableName, constraints) ==
    IF i > Len(tcs) THEN constraints
    ELSE LET name == ConstraintNameOf(tcs[i], tableName, constraints)
         IN ConstraintsOf(tcs, i + 1, tableName,
                          Put(constraints, name, ConstraintOf(tcs[i], name)))

processCreateTable(schema, stmt) ==
    LET table == [Name |-> stmt.Name,
                  Columns |-> ColumnsOf(stmt),
                  PrimaryKey |-> stmt.PrimaryKeys,
                  ParentTable |-> stmt.ClusterTable,
                  OnDelete |-> stmt.ClusterOnDelete,
                  Constraints |-> ConstraintsOf(stmt.TableConstraints, 1, stmt.Name, EmptyMap),
                  RowDeletionPolicyColumn |-> stmt.RdpColumn,
                  RowDeletionPolicyDays |-> stmt.RdpDays]
    IN [schema EXCEPT !.Tables = Put(schema.Tables, stmt.Name, table)]

processCreateIndex(schema, stmt) ==
    LET index == [Name |-> stmt.Name,
                  TableName |-> stmt.TableName,
                  Columns |-> stmt.Keys,
                  Unique |-> stmt.Unique,
                  NullFiltered |-> stmt.NullFiltered,
                  Storing |-> stmt.Storing]
    IN [schema EXCEPT !.Indexes = Put(schema.Indexes, stmt.Name, index)]

processStatement(schema, stmt) ==
    IF stmt.stmt = "CreateTable" THEN processCreateTable(schema, stmt)
    ELSE IF stmt.stmt = "CreateIndex" THEN processCreateIndex(schema, stmt)
    ELSE schema

RECURSIVE processStatements(_, _, _)
processStatements(schema, stmts, i) ==
    IF i > Len(stmts) THEN schema
    ELSE processStatements(processStatement(schema, stmts[i]), stmts, i + 1)

\* ParseDDLs with the error of the parser dropped: the statements read so far
ParseDDLsLenient(ddlText) ==
    [err |-> FALSE, schema |-> processStatements(EmptySchema, ddlText.stmts, 1)]

\* ParseDDLs: a DDL text is its statement list, or is not parseable (ok = FALSE)
ParseDDLs(ddlText) ==
    IF ~ddlText.ok THEN [err |-> TRUE, schema |-> EmptySchema]
    ELSE [err |-> FALSE, schema |-> processStatements(EmptySchema, ddlText.stmts, 1)]

(***************************************************************************)
(* Rendering.                                                              *)
(***************************************************************************)
\* the column line of generateCreateTable and of ADD COLUMN, without indent
ColumnDef(col) ==
    <<col.Name, col.Type>>
        \o (IF col.NotNull THEN <<"NOT", "NULL">> ELSE <<>>)
        \o (IF col.Default # "" THEN <<"DEFAULT", col.Default>> ELSE <<>>)

\* strings.Join(defs, ",\n") for a sequence of token sequences
RECURSIVE JoinDefs(_)
JoinDefs(defs) ==
    IF Len(defs) = 0 THEN <<>>
    ELSE IF Len(defs) = 1 THEN defs[1]
    ELSE defs[1] \o <<",">> \o JoinDefs(Tail(defs))

\* the text after "CONSTRAINT <name>" for a foreign key
ForeignKeyDef(constraint) ==
    <<"FOREIGN", "KEY", "(">> \o Join(constraint.Columns, ",")
        \o <<")", "REFERENCES", constraint.ReferenceTable, "(">>
        \o Join(constraint.ReferenceColumns, ",") \o <<")">>
        \o (IF constraint.OnDelete # "" THEN <<constraint.OnDelete>> ELSE <<>>)

generateCreateTable(table) ==
    LET colLess(a, b) ==
            IF table.Columns[a].Order # table.Columns[b].Order
            THEN table.Columns[a].Order < table.Columns[b].Order
            ELSE StrLess(a, b)
        columns == SortBy(DOMAIN table.Columns, colLess)
        columnDefs == [i \in 1..Len(columns) |-> ColumnDef(table.Columns[columns[i]])]
        constraintNames == SortBy(DOMAIN table.Constraints, StrLess)
        constraintDef(name) ==
            LET constraint == table.Constraints[name]
            IN IF constraint.Type = "CHECK"
               THEN <<",", "CONSTRAINT", name, "CHECK", constraint.Expression>>
               ELSE IF constraint.Type = "FOREIGN KEY"
               THEN <<",", "CONSTRAINT", name>> \o ForeignKeyDef(constraint)
               ELSE <<>>
    IN <<"CREATE", "TABLE", table.Name, "(">>
        \o JoinDefs(columnDefs)
        \o Flatten([i \in 1..Len(constraintNames) |-> constraintDef(constraintNames[i])])
        \o (IF Len(table.PrimaryKey) > 0
            THEN <<")", "PRIMARY", "KEY", "(">> \o Join(table.PrimaryKey, ",") \o <<")">>
            ELSE <<")">>)
        \o (IF table.ParentTable # ""
            THEN <<",", "INTERLEAVE", "IN", "PARENT", table.ParentTable>>
                     \o (IF table.OnDelete # "" THEN <<table.OnDelete>> ELSE <<>>)
            ELSE <<>>)
        \o (IF table.RowDeletionPolicyColumn # "" /\ table.RowDeletionPolicyDays > 0
            THEN <<",", "ROW", "DELETION", "POLICY", "(", "OLDER_THAN", "(",
                   table.RowDeletionPolicyColumn, ",", "INTERVAL",
                   ToString(table.RowDeletionPolicyDays), "DAY", ")", ")">>
            ELSE <<>>)

generateCreateIndex(index) ==
    (IF index.Unique THEN <<"CREATE", "UNIQUE", "INDEX">> ELSE <<"CREATE", "INDEX">>)
        \o <<index.Name, "ON", index.TableName>>
        \o <<"(">> \o Join(index.Columns, ",") \o <<")">>
        \o (IF Len(index.Storing) > 0
            THEN <<"STORING", "(">> \o Join(index.Storing, ",") \o <<")">>
            ELSE <<>>)

(***************************************************************************)
(* The differ.  Every ord argument is the order in which the range loop    *)
(* visits the keys of its map.                                             *)
(***************************************************************************)
\* generateDropIndexDDLs without the test of the index's table
ShouldDropIndexMissingOnly(current, desired, indexName) ==
    indexName \notin DOMAIN desired.Indexes

\* the index loop body of generateDropIndexDDLs
ShouldDropIndex(current, desired, indexName) ==
    \/ indexName \notin DOMAIN desired.Indexes
    \/ current.Indexes[indexName].TableName \notin DOMAIN desired.Tables

generateDropIndexDDLs(current, desired, ord) ==
    Flatten([i \in 1..Len(ord) |->
        IF ShouldDropIndex(current, desired, ord[i])
        THEN << <<"DROP", "INDEX", ord[i]>> >>
        ELSE <<>>])

generateDropTableDDLs(current, desired, ord) ==
    Flatten([i \in 1..Len(ord) |->
        IF ord[i] \notin DOMAIN desired.Tables
        THEN << <<"DROP", "TABLE", ord[i]>> >>
        ELSE <<>>])

\* the comparison of generateAlterTable with the CHECK branch alone
ConstraintDiffersCheckOnly(type, currentConstraint, desiredConstraint) ==
    /\ type = "CHECK"
    /\ currentConstraint.Expression # desiredConstraint.Expression

\* the comparison of generateAlterTable that asks for a drop and re-add,
\* for a constraint of kind type
ConstraintDiffers(type, currentConstraint, desiredConstraint) ==
    \/ /\ type = "CHECK"
       /\ currentConstraint.Expression # desiredConstraint.Expression
    \/ /\ type = "FOREIGN KEY"
       /\ \/ Join(currentConstraint.Columns, ",") # Join(desiredConstraint.Columns, ",")
          \/ currentConstraint.ReferenceTable # desiredConstraint.ReferenceTable
          \/ Join(currentConstraint.ReferenceColumns, ",")
                 # Join(desiredConstraint.ReferenceColumns, ",")
          \/ currentConstraint.OnDelete # desiredConstraint.OnDelete

NeedsDrop(current, desired, constraintName) ==
    \/ constraintName \notin DOMAIN desired.Constraints
    \/ ConstraintDiffers(current.Constraints[constraintName].Type,
                         current.Constraints[constraintName],
                         desired.Constraints[constraintName])

\* the add loop of generateAlterTable without the test for a changed constraint
NeedsAddNewOnly(current, desired, constraintName) ==
    constraintName \notin DOMAIN current.Constraints

NeedsAdd(current, desired, constraintName) ==
    \/ constraintName \notin DOMAIN current.Constraints
    \/ ConstraintDiffers(desired.Constraints[constraintName].Type,
                         current.Constraints[constraintName],
                         desired.Constraints[constraintName])

AddConstraintDDL(desired, constraintName) ==
    LET desiredConstraint == desired.Constraints[constraintName]
    IN IF desiredConstraint.Type = "CHECK"
       THEN << <<"ALTER", "TABLE", desired.Name, "ADD", "CONSTRAINT", constraintName,
                 "CHECK", desiredConstraint.Expression>> >>
       ELSE IF desiredConstraint.Type = "FOREIGN KEY"
       THEN << <<"ALTER", "TABLE", desired.Name, "ADD", "CONSTRAINT", constraintName>>
                   \o ForeignKeyDef(desiredConstraint) >>
       ELSE <<>>

\* o.addColumns, o.dropConstraints, o.dropColumns, o.alterColumns and
\* o.addConstraints are the visiting orders of the five loops
generateAlterTable(current, desired, o) ==
    Flatten([i \in 1..Len(o.addColumns) |->
        IF o.addColumns[i] \notin DOMAIN current.Columns
        THEN << <<"ALTER", "TABLE", desired.Name, "ADD", "COLUMN">>
                    \o ColumnDef(desired.Columns[o.addColumns[i]]) >>
        ELSE <<>>])
    \o Flatten([i \in 1..Len(o.dropConstraints) |->
        IF NeedsDrop(current, desired, o.dropConstraints[i])
        THEN << <<"ALTER", "TABLE", desired.Name, "DROP", "CONSTRAINT", o.dropConstraints[i]>> >>
        ELSE <<>>])
    \o Flatten([i \in 1..Len(o.dropColumns) |->
        IF o.dropColumns[i] \notin DOMAIN desired.Columns
        THEN << <<"ALTER", "TABLE", desired.Name, "DROP", "COLUMN", o.dropColumns[i]>> >>
        ELSE <<>>])
    \o Flatten([i \in 1..Len(o.alterColumns) |->
        LET colName == o.alterColumns[i]
        IN IF /\ colName \in DOMAIN current.Columns
              /\ current.Columns[colName].Type # desired.Columns[colName].Type
           THEN << <<"ALTER", "TABLE", desired.Name, "ALTER", "COLUMN", colName,
                     desired.Columns[colName].Type>>
                       \o (IF desired.Columns[colName].NotNull THEN <<"NOT", "NULL">> ELSE <<>>) >>
           ELSE <<>>])
    \o Flatten([i \in 1..Len(o.addConstraints) |->
        IF NeedsAdd(current, desired, o.addConstraints[i])
        THEN AddConstraintDDL(desired, o.addConstraints[i])
        ELSE <<>>])

\* ord visits desired.Tables; alter[t] holds the loop orders for table t
generateAlterTableDDLs(current, desired, ord, alter) ==
    Flatten([i \in 1..Len(ord) |->
        IF ord[i] \in DOMAIN current.Tables
        THEN generateAlterTable(current.Tables[ord[i]], desired.Tables[ord[i]], alter[ord[i]])
        ELSE <<>>])

\* processTable of sortTablesByDependency.  st holds result and processed;
\* st.overflow is set when the call stack is deeper than the number of
\* tables: some table is then on the stack twice, not yet processed, and the
\* recursion never returns (the Go runtime ends the process on stack
\* overflow).  cons[t] is the visiting order of t's constraints.
RECURSIVE processTable(_, _, _, _, _)
RECURSIVE processReferences(_, _, _, _, _, _)
processTable(table, st, tableMap, cons, depth) ==
    IF st.overflow THEN st
    ELSE IF depth > Cardinality(DOMAIN tableMap) THEN [st EXCEPT !.overflow = TRUE]
    ELSE IF table.Name \in st.processed THEN st
    ELSE LET afterParent ==
                 IF table.ParentTable # "" /\ table.ParentTable \in DOMAIN tableMap
                 THEN processTable(tableMap[table.ParentTable], st, tableMap, cons, depth + 1)
                 ELSE st
             afterRefs == processReferences(table, 1, afterParent, tableMap, cons, depth)
         IN IF afterRefs.overflow THEN afterRefs
            ELSE [result |-> Append(afterRefs.result, table),
                  processed |-> afterRefs.processed \cup {table.Name},
                  overflow |-> FALSE]

\* processTable as it was before foreign keys were followed
processReferencesSkipped(table, i, st, tableMap, cons, depth) == st

processReferences(table, i, st, tableMap, cons, depth) ==
    IF i > Len(cons[table.Name]) THEN st
    ELSE LET constraint == table.Constraints[cons[table.Name][i]]
             next == IF /\ constraint.Type = "FOREIGN KEY"
                        /\ constraint.ReferenceTable \in DOMAIN tableMap
                     THEN processTable(tableMap[constraint.ReferenceTable], st, tableMap,
                                       cons, depth + 1)
                     ELSE st
         IN processReferences(table, i + 1, next, tableMap, cons, depth)

RECURSIVE processTables(_, _, _, _, _)
processTables(tables, i, st, tableMap, cons) ==
    IF i > Len(tables) THEN st
    ELSE processTables(tables, i + 1, processTable(tables[i], st, tableMap, cons, 1),
                       tableMap, cons)

\* the new tables in the order the map gave them
sortTablesUnsorted(tables, cons) ==
    [result |-> tables, processed |-> {tables[i].Name : i \in 1..Len(tables)}, overflow |-> FALSE]

sortTablesByDependency(tables, cons) ==
    LET tableMap == [name \in {tables[i].Name : i \in 1..Len(tables)} |->
                        tables[CHOOSE i \in 1..Len(tables) :
                                   /\ tables[i].Name = name
                                   /\ \A j \in 1..Len(tables) : tables[j].Name = name => j <= i]]
    IN processTables(tables, 1, [result |-> <<>>, processed |-> {}, overflow |-> FALSE],
                     tableMap, cons)

\* generateCreateTableDDLs without the test that the table is new
generateCreateTableDDLsAll(current, desired, ord, cons) ==
    LET sorted == sortTablesByDependency([i \in 1..Len(ord) |-> desired.Tables[ord[i]]], cons)
    IN [overflow |-> sorted.overflow,
        ddls |-> [i \in 1..Len(sorted.result) |-> generateCreateTable(sorted.result[i])]]

\* ord visits desired.Tables
generateCreateTableDDLs(current, desired, ord, cons) ==
    LET newTables == Flatten([i \in 1..Len(ord) |->
                         IF ord[i] \notin DOMAIN current.Tables
                         THEN <<desired.Tables[ord[i]]>>
                         ELSE <<>>])
        sorted == sortTablesByDependency(newTables, cons)
    IN [overflow |-> sorted.overflow,
        ddls |-> [i \in 1..Len(sorted.result) |-> generateCreateTable(sorted.result[i])]]

\* ord visits desired.Indexes
generateCreateIndexDDLs(current, desired, ord) ==
    Flatten([i \in 1..Len(ord) |->
        IF ord[i] \notin DOMAIN current.Indexes
        THEN <<generateCreateIndex(desired.Indexes[ord[i]])>>
        ELSE <<>>])

\* o holds the visiting order of every range loop of the run
GenerateDDLs(current, desired, o) ==
    LET created == generateCreateTableDDLs(current, desired, o.createTable, o.cons)
    IN [overflow |-> created.overflow,
        ddls |-> generateDropIndexDDLs(current, desired, o.dropIndex)
                 \o generateDropTableDDLs(current, desired, o.dropTable)
                 \o generateAlterTableDDLs(current, desired, o.alterTable, o.alter)
                 \o created.ddls
                 \o generateCreateIndexDDLs(current, desired, o.createIndex)]

(***************************************************************************)
(* Reading a statement back: what the database (and memefish) make of the  *)
(* text of a statement that the renderer wrote.                            *)
(***************************************************************************)
\* the expression texts and day counts of the model
ExprTexts == {"0", "1", "id > 0", "id > 1"}
MaxDays == 2

Unparen(tok) == CHOOSE e \in ExprTexts : Paren(e) = tok

ParseInt(tok) == CHOOSE n \in 0..MaxDays : ToString(n) = tok

\* position of the ")" that closes the "(" at position open
RECURSIVE CloseOf(_, _, _)
CloseOf(toks, i, depth) ==
    IF i > Len(toks) THEN 0
    ELSE IF toks[i] = "(" THEN CloseOf(toks, i + 1, depth + 1)
    ELSE IF toks[i] = ")" THEN (IF depth = 1 THEN i ELSE CloseOf(toks, i + 1, depth - 1))
    ELSE CloseOf(toks, i + 1, depth)

\* the items of a comma-separated list, split at the commas outside parentheses
RECURSIVE SplitItems(_, _, _, _)
SplitItems(toks, i, depth, item) ==
    IF i > Len(toks) THEN (IF Len(item) = 0 THEN <<>> ELSE <<item>>)
    ELSE IF toks[i] = "," /\ depth = 0 THEN <<item>> \o SplitItems(toks, i + 1, 0, <<>>)
    ELSE SplitItems(toks, i + 1,
                    IF toks[i] = "(" THEN depth + 1 ELSE IF toks[i] = ")" THEN depth - 1 ELSE depth,
                    Append(item, toks[i]))

\* the names of "( n1 , n2 )" whose "(" is at position open
NameList(toks, open) ==
    SelectSeq(SubSeq(toks, open + 1, CloseOf(toks, open, 0) - 1), LAMBDA t : t # ",")

\* "name type [NOT NULL] [DEFAULT (expr)]"
ParseColumnDef(item) ==
    [Name |-> item[1],
     Type |-> item[2],
     NotNull |-> Contains(item, <<"NOT", "NULL">>),
     DefaultExpr |-> IF IndexFrom(item, "DEFAULT", 1) > 0
                     THEN Unparen(item[IndexFrom(item, "DEFAULT", 1) + 1])
                     ELSE "",
     PrimaryKey |-> FALSE]

\* "CHECK (expr)" or "FOREIGN KEY ( cols ) REFERENCES t ( cols ) [on delete]" from position i
ParseConstraintDef(name, toks, i) ==
    IF toks[i] = "CHECK"
    THEN [Name |-> name, Kind |-> "Check", Expr |-> Unparen(toks[i + 1]),
          Columns |-> <<>>, ReferenceTable |-> "", ReferenceColumns |-> <<>>, OnDelete |-> ""]
    ELSE LET close1 == CloseOf(toks, i + 2, 0)
             close2 == CloseOf(toks, close1 + 3, 0)
         IN [Name |-> name, Kind |-> "ForeignKey", Expr |-> "",
             Columns |-> NameList(toks, i + 2),
             ReferenceTable |-> toks[close1 + 2],
             ReferenceColumns |-> NameList(toks, close1 + 3),
             OnDelete |-> IF close2 < Len(toks) THEN toks[close2 + 1] ELSE ""]

ParseCreateTable(toks) ==
    LET close == CloseOf(toks, 4, 0)
        items == SplitItems(SubSeq(toks, 5, close - 1), 1, 0, <<>>)
        isConstraint(item) == item[1] = "CONSTRAINT"
        colItems == SelectSeq(items, LAMBDA item : ~isConstraint(item))
        conItems == SelectSeq(items, isConstraint)
        hasKey == close + 1 <= Len(toks) /\ toks[close + 1] = "PRIMARY"
        afterKey == IF hasKey THEN CloseOf(toks, close + 3, 0) ELSE close
        clauses == SplitItems(SubSeq(toks, afterKey + 1, Len(toks)), 1, 0, <<>>)
        interleave == SelectSeq(clauses, LAMBDA c : Len(c) > 0 /\ c[1] = "INTERLEAVE")
        policy == SelectSeq(clauses, LAMBDA c : Len(c) > 0 /\ c[1] = "ROW")
    IN [stmt |-> "CreateTable",
        Name |-> toks[3],
        Columns |-> [i \in 1..Len(colItems) |-> ParseColumnDef(colItems[i])],
        PrimaryKeys |-> IF hasKey THEN NameList(toks, close + 3) ELSE <<>>,
        TableConstraints |-> [i \in 1..Len(conItems) |->
                                 ParseConstraintDef(conItems[i][2], conItems[i], 3)],
        ClusterTable |-> IF Len(interleave) > 0 THEN interleave[1][4] ELSE "",
        ClusterOnDelete |-> IF Len(interleave) > 0 /\ Len(interleave[1]) > 4
                            THEN interleave[1][5] ELSE "",
        RdpColumn |-> IF Len(policy) > 0 THEN policy[1][7] ELSE "",
        RdpDays |-> IF Len(policy) > 0 THEN ParseInt(policy[1][10]) ELSE 0]

ParseCreateIndex(toks) ==
    LET on == IndexFrom(toks, "ON", 1)
        close == CloseOf(toks, on + 2, 0)
    IN [stmt |-> "CreateIndex",
        Name |-> toks[on - 1],
        TableName |-> toks[on + 1],
        Keys |-> NameList(toks, on + 2),
        Unique |-> IndexFrom(SubSeq(toks, 1, on), "UNIQUE", 1) > 0,
        NullFiltered |-> IndexFrom(SubSeq(toks, 1, on), "NULL_FILTERED", 1) > 0,
        Storing |-> IF close < Len(toks) THEN NameList(toks, close + 2) ELSE <<>>]

(***************************************************************************)
(* The database executing a statement of a batch (ExecDDLs): the schema    *)
(* it holds afterwards.                                                    *)
(***************************************************************************)
ApplyAlterTable(table, toks) ==
    IF toks[4] = "ADD" /\ toks[5] = "COLUMN"
    THEN [table EXCEPT !.Columns =
             Put(table.Columns, toks[6],
                 ColumnOf(ParseColumnDef(SubSeq(toks, 6, Len(toks))),
                          Cardinality(DOMAIN table.Columns)))]
    ELSE IF toks[4] = "DROP" /\ toks[5] = "COLUMN"
    THEN [table EXCEPT !.Columns = Remove(table.Columns, toks[6])]
    ELSE IF toks[4] = "DROP" /\ toks[5] = "CONSTRAINT"
    THEN [table EXCEPT !.Constraints = Remove(table.Constraints, toks[6])]
    ELSE IF toks[4] = "ALTER" /\ toks[5] = "COLUMN"
    THEN IF toks[6] \in DOMAIN table.Columns
         THEN [table EXCEPT !.Columns[toks[6]].Type = toks[7],
                            !.Columns[toks[6]].NotNull = Contains(toks, <<"NOT", "NULL">>)]
         ELSE table
    ELSE IF toks[4] = "ADD" /\ toks[5] = "CONSTRAINT"
    THEN [table EXCEPT !.Constraints =
             Put(table.Constraints, toks[6],
                 ConstraintOf(ParseConstraintDef(toks[6], toks, 7), toks[6]))]
    ELSE table

ApplyDDL(schema, toks) ==
    IF toks[1] = "DROP" /\ toks[2] = "INDEX"
    THEN [schema EXCEPT !.Indexes = Remove(schema.Indexes, toks[3])]
    ELSE IF toks[1] = "DROP" /\ toks[2] = "TABLE"
    THEN [schema EXCEPT !.Tables = Remove(schema.Tables, toks[3])]
    ELSE IF toks[1] = "CREATE" /\ toks[2] = "TABLE"
    THEN processCreateTable(schema, ParseCreateTable(toks))
    ELSE IF toks[1] = "CREATE"
    THEN processCreateIndex(schema, ParseCreateIndex(toks))
    ELSE IF toks[1] = "ALTER" /\ toks[3] \in DOMAIN schema.Tables
    THEN [schema EXCEPT !.Tables[toks[3]] = ApplyAlterTable(schema.Tables[toks[3]], toks)]
    ELSE schema

RECURSIVE ApplyDDLs(_, _, _)
ApplyDDLs(schema, ddls, i) ==
    IF i > Len(ddls) THEN schema
    ELSE ApplyDDLs(ApplyDDL(schema, ddls[i]), ddls, i + 1)

(***************************************************************************)
(* The orchestrator's pure parts.                                          *)
(***************************************************************************)
\* shouldIncludeTable with the target list read before the skip list
shouldIncludeTableTargetFirst(tableName, config) ==
    IF Len(config.TargetTables) > 0
    THEN \E i \in 1..Len(config.TargetTables) : config.TargetTables[i] = tableName
    ELSE ~\E i \in 1..Len(config.SkipTables) : config.SkipTables[i] = tableName

shouldIncludeTable(tableName, config) ==
    IF \E i \in 1..Len(config.SkipTables) : config.SkipTables[i] = tableName THEN FALSE
    ELSE IF Len(config.TargetTables) > 0
    THEN \E i \in 1..Len(config.TargetTables) : config.TargetTables[i] = tableName
    ELSE TRUE

filterSchema(s, config) ==
    [Tables |-> [name \in {n \in DOMAIN s.Tables : shouldIncludeTable(n, config)} |->
                    s.Tables[name]],
     Indexes |-> [name \in {n \in DOMAIN s.Indexes :
                               shouldIncludeTable(s.Indexes[n].TableName, config)} |->
                     s.Indexes[name]]]

\* the test of RunDDLs that withholds a statement
Withheld(ddl, enableDrop) ==
    /\ ~enableDrop
    /\ \/ Contains(ddl, <<"DROP", "TABLE">>)
       \/ Contains(ddl, <<"DROP", "INDEX">>)
       \/ Contains(ddl, <<"DROP", "COLUMN">>)

\* validDDLs of RunDDLs
ValidDDLs(ddls, enableDrop) == SelectSeq(ddls, LAMBDA ddl : ~Withheld(ddl, enableDrop))

\* the test of showDDLs that marks a statement as skipped
ShownSkipped(ddl, enableDropTable) ==
    ~enableDropTable /\ Contains(ddl, <<"DROP", "TABLE">>)

\* the lines showDDLs prints after the header
ShownDDLs(ddls, enableDropTable) ==
    [i \in 1..Len(ddls) |->
        IF ShownSkipped(ddls[i], enableDropTable)
        THEN <<"-- Skipped:">> \o ddls[i]
        ELSE ddls[i]]

(***************************************************************************)
(* Visiting orders.  What a range loop appends depends only on the         *)
(* relative order of the keys for which its body appends (E), so the       *)
(* other keys are visited last, in one fixed order.                        *)
(***************************************************************************)
RangeOrders(S, E) ==
    LET rest == CHOOSE r \in Orders(S \ E) : TRUE
    IN {o \o rest : o \in Orders(S \cap E)}

\* the functions on D that take at t a value of F(t)
Choices(D, F(_)) == {f \in [D -> UNION {F(t) : t \in D}] : \A t \in D : f[t] \in F(t)}

AlterOrders(current, desired) ==
    [addColumns : RangeOrders(DOMAIN desired.Columns,
                              (DOMAIN desired.Columns) \ (DOMAIN current.Columns)),
     dropConstraints : RangeOrders(DOMAIN current.Constraints,
                                   {n \in DOMAIN current.Constraints : NeedsDrop(current, desired, n)}),
     dropColumns : RangeOrders(DOMAIN current.Columns,
                               (DOMAIN current.Columns) \ (DOMAIN desired.Columns)),
     alterColumns : RangeOrders(DOMAIN desired.Columns,
                                {c \in (DOMAIN desired.Columns) \cap (DOMAIN current.Columns) :
                                    current.Columns[c].Type # desired.Columns[c].Type}),
     addConstraints : RangeOrders(DOMAIN desired.Constraints,
                                  {n \in DOMAIN desired.Constraints : NeedsAdd(current, desired, n)})]

ConstraintOrders(table) ==
    RangeOrders(DOMAIN table.Constraints,
                {n \in DOMAIN table.Constraints : table.Constraints[n].Type = "FOREIGN KEY"})

GenOrders(current, desired) ==
    LET both == (DOMAIN current.Tables) \cap (DOMAIN desired.Tables)
        alterOrders(t) == AlterOrders(current.Tables[t], desired.Tables[t])
        consOrders(t) == ConstraintOrders(desired.Tables[t])
    IN [dropIndex : RangeOrders(DOMAIN current.Indexes,
                                {n \in DOMAIN current.Indexes : ShouldDropIndex(current, desired, n)}),
        dropTable : RangeOrders(DOMAIN current.Tables,
                                (DOMAIN current.Tables) \ (DOMAIN desired.Tables)),
        alterTable : RangeOrders(DOMAIN desired.Tables, both),
        alter : Choices(both, alterOrders),
        createTable : RangeOrders(DOMAIN desired.Tables,
                                  (DOMAIN desired.Tables) \ (DOMAIN current.Tables)),
        cons : Choices(DOMAIN desired.Tables, consOrders),
        createIndex : RangeOrders(DOMAIN desired.Indexes,
                                  (DOMAIN desired.Indexes) \ (DOMAIN current.Indexes))]

(***************************************************************************)
(* State.                                                                  *)
(***************************************************************************)
VARIABLES
    pc,           \* where Run is
    database,     \* the DDL text the database holds
    options,      \* Options: DesiredDDLs, DryRun, Export, EnableDrop, Config
    currentDDLs,  \* the text DumpDDLs returned
    current,      \* currentSchema after filterSchema
    desired,      \* desiredSchema after filterSchema
    ddls,         \* the plan
    calls,        \* the calls made on the database, in order
    output        \* the lines printed

vars == <<pc, database, options, currentDDLs, current, desired, ddls, calls, output>>

NoText == [ok |-> TRUE, stmts |-> <<>>]

(***************************************************************************)
(* Run, step by step.                                                      *)
(***************************************************************************)
DumpDDLs ==
    /\ pc = "start"
    /\ calls' = Append(calls, [op |-> "DumpDDLs", ddls |-> <<>>])
    /\ currentDDLs' = database
    /\ pc' = "dumped"
    /\ UNCHANGED <<database, options, current, desired, ddls, output>>

\* the errors GetDatabaseDdl can return
DumpErrors == {"database not found", "unavailable"}

\* DumpDDLs returns an error: log.Fatalf writes it and ends the process
DumpDDLsFails ==
    /\ pc = "start"
    /\ calls' = Append(calls, [op |-> "DumpDDLs", ddls |-> <<>>])
    /\ \E err \in DumpErrors : output' = Append(output, <<"Error on DumpDDLs:", err>>)
    /\ pc' = "fatal"
    /\ UNCHANGED <<database, options, currentDDLs, current, desired, ddls>>

Export ==
    /\ pc = "dumped"
    /\ options.Export
    /\ output' = IF currentDDLs = NoText
                 THEN Append(output, <<"-- No schema exists --">>)
                 ELSE Append(output, <<"currentDDLs">>)
    /\ pc' = "done"
    /\ UNCHANGED <<database, options, currentDDLs, current, desired, ddls, calls>>

GenerateIdempotentDDLs ==
    /\ pc = "dumped"
    /\ ~options.Export
    /\ LET currentSchema == ParseDDLs(currentDDLs)
           desiredSchema == ParseDDLs(options.DesiredDDLs)
       IN IF currentSchema.err \/ desiredSchema.err
          THEN /\ pc' = "exit1"
               /\ output' = Append(output,
                                IF currentSchema.err
                                THEN <<"failed to parse current DDLs">>
                                ELSE <<"failed to parse desired DDLs">>)
               /\ UNCHANGED <<current, desired, ddls>>
          ELSE /\ current' = filterSchema(currentSchema.schema, options.Config)
               /\ desired' = filterSchema(desiredSchema.schema, options.Config)
               /\ \E o \in GenOrders(current', desired') :
                      LET generated == GenerateDDLs(current', desired', o)
                      IN IF generated.overflow
                         THEN pc' = "overflow" /\ ddls' = <<>>
                         ELSE pc' = "generated" /\ ddls' = generated.ddls
               /\ UNCHANGED output
    /\ UNCHANGED <<database, options, currentDDLs, calls>>

NothingModified ==
    /\ pc = "generated"
    /\ Len(ddls) = 0
    /\ output' = Append(output, <<"-- Nothing is modified --">>)
    /\ pc' = "done"
    /\ UNCHANGED <<database, options, currentDDLs, current, desired, ddls, calls>>

showDDLs ==
    /\ pc = "generated"
    /\ Len(ddls) # 0
    /\ options.DryRun
    /\ output' = output \o << <<"-- dry run --">> >> \o ShownDDLs(ddls, options.EnableDrop)
    /\ pc' = "done"
    /\ UNCHANGED <<database, options, currentDDLs, current, desired, ddls, calls>>

\* RunDDLs calling ExecDDL for every statement instead of ExecDDLs once
RunDDLsOneByOne ==
    /\ pc = "generated"
    /\ Len(ddls) # 0
    /\ ~options.DryRun
    /\ LET validDDLs == ValidDDLs(ddls, options.EnableDrop)
       IN /\ output' = output \o << <<"-- Apply --">> >>
                         \o [i \in 1..Len(ddls) |->
                                IF Withheld(ddls[i], options.EnableDrop)
                                THEN <<"-- Skipped:">> \o ddls[i]
                                ELSE ddls[i]]
          /\ calls' = calls \o [i \in 1..Len(validDDLs) |->
                                   [op |-> "ExecDDLs", ddls |-> <<validDDLs[i]>>]]
          /\ pc' \in {"done", "fatal"}
    /\ UNCHANGED <<database, options, currentDDLs, current, desired, ddls>>

\* Run without the return after showDDLs: RunDDLs is reached in a dry run too
RunDDLsInDryRun ==
    /\ pc = "generated"
    /\ Len(ddls) # 0
    /\ LET validDDLs == ValidDDLs(ddls, options.EnableDrop)
       IN /\ output' = output \o << <<"-- Apply --">> >>
          /\ IF Len(validDDLs) = 0
             THEN calls' = calls /\ pc' = "done"
             ELSE /\ calls' = Append(calls, [op |-> "ExecDDLs", ddls |-> validDDLs])
                  /\ pc' \in {"done", "fatal"}
    /\ UNCHANGED <<database, options, currentDDLs, current, desired, ddls>>

\* RunDDLs; ExecDDLs succeeds or returns an error (log.Fatal)
RunDDLs ==
    /\ pc = "generated"
    /\ Len(ddls) # 0
    /\ ~options.DryRun
    /\ LET validDDLs == ValidDDLs(ddls, options.EnableDrop)
       IN /\ output' = output \o << <<"-- Apply --">> >>
                         \o [i \in 1..Len(ddls) |->
                                IF Withheld(ddls[i], options.EnableDrop)
                                THEN <<"-- Skipped:">> \o ddls[i]
                                ELSE ddls[i]]
          /\ IF Len(validDDLs) = 0
             THEN calls' = calls /\ pc' = "done"
             ELSE /\ calls' = Append(calls, [op |-> "ExecDDLs", ddls |-> validDDLs])
                  /\ pc' \in {"done", "fatal"}
    /\ UNCHANGED <<database, options, currentDDLs, current, desired, ddls>>

Next ==
    \/ DumpDDLs
    \/ DumpDDLsFails
    \/ Export
    \/ GenerateIdempotentDDLs
    \/ NothingModified
    \/ showDDLs
    \/ RunDDLs

(***************************************************************************)
(* Inputs: DDL texts, given by the statements memefish reads from them.    *)
(***************************************************************************)
TName(i) == "T" \o ToString(i)
IName(i) == "I" \o ToString(i)

Col(name, type, notNull, defaultExpr) ==
    [Name |-> name, Type |-> type, NotNull |-> notNull, DefaultExpr |-> defaultExpr,
     PrimaryKey |-> FALSE]

Check(name, expr) ==
    [Name |-> name, Kind |-> "Check", Expr |-> expr,
     Columns |-> <<>>, ReferenceTable |-> "", ReferenceColumns |-> <<>>, OnDelete |-> ""]

ForeignKey(name, columns, referenceTable, referenceColumns, onDelete) ==
    [Name |-> name, Kind |-> "ForeignKey", Expr |-> "",
     Columns |-> columns, ReferenceTable |-> referenceTable,
     ReferenceColumns |-> referenceColumns, OnDelete |-> onDelete]

CreateTable(name, columns, tableConstraints, parent, onDelete) ==
    [stmt |-> "CreateTable", Name |-> name, Columns |-> columns, PrimaryKeys |-> <<"id">>,
     TableConstraints |-> tableConstraints, ClusterTable |-> parent,
     ClusterOnDelete |-> onDelete, RdpColumn |-> "", RdpDays |-> 0]

CreateIndex(name, tableName, keys, unique, nullFiltered, storing) ==
    [stmt |-> "CreateIndex", Name |-> name, TableName |-> tableName, Keys |-> keys,
     Unique |-> unique, NullFiltered |-> nullFiltered, Storing |-> storing]

NoStatement == [stmt |-> "None"]

IdColumn == Col("id", "INT64", TRUE, "")

\* every text made of one statement (or none) per key of D, the statement for
\* key k drawn from Stmts(k)
Texts(D, Stmts(_)) ==
    LET picks == Choices(D, LAMBDA k : Stmts(k) \cup {NoStatement})
        order == SortBy(D, StrLess)
    IN {[ok |-> TRUE,
         stmts |-> Flatten([i \in 1..Len(order) |->
                       IF pick[order[i]] = NoStatement THEN <<>> ELSE <<pick[order[i]]>>])] :
        pick \in picks}

NoConfig == [TargetTables |-> <<>>, SkipTables |-> <<>>]

TableNames == {TName(i) : i \in 1..NumTables}
IndexNames == {IName(i) : i \in 1..NumIndexes}

\* Table and index definitions for the differ: the first table varies in its
\* second column and its CHECK constraint, the others are plain.
DiffTableStmts(t) ==
    IF t = TName(1)
    THEN {CreateTable(t, <<IdColumn>> \o a, <<>>, "", "") :
              a \in {<<>>, <<Col("a", "INT64", FALSE, "")>>, <<Col("a", "INT64", TRUE, "")>>,
                     <<Col("a", "STRING(MAX)", FALSE, "")>>, <<Col("a", "INT64", FALSE, "0")>>}}
         \cup {CreateTable(t, <<IdColumn>>, <<Check("ck", e)>>, "", "") : e \in {"id > 0", "id > 1"}}
    ELSE {CreateTable(t, <<IdColumn>>, <<>>, "", "")}

DiffIndexStmts(i) ==
    {CreateIndex(i, t, <<"id">>, FALSE, FALSE, <<>>) : t \in TableNames}
    \cup {CreateIndex(i, TName(1), <<"id">>, TRUE, FALSE, <<>>),
          CreateIndex(i, TName(1), <<"id">>, FALSE, TRUE, <<>>),
          CreateIndex(i, TName(1), <<"id">>, FALSE, FALSE, <<"a">>)}

DiffTexts ==
    Texts(TableNames \cup IndexNames,
          LAMBDA k : IF k \in TableNames THEN DiffTableStmts(k) ELSE DiffIndexStmts(k))

\* GenerateIdempotentDDLs called on two texts, without filter
InitDiff ==
    /\ pc = "dumped"
    /\ database \in DiffTexts
    /\ currentDDLs = database
    /\ options \in [DesiredDDLs : DiffTexts, DryRun : {FALSE}, Export : {FALSE},
                    EnableDrop : {TRUE}, Config : {NoConfig}]
    /\ current = EmptySchema
    /\ desired = EmptySchema
    /\ ddls = <<>>
    /\ calls = <<>>
    /\ output = <<>>

SpecDiff == InitDiff /\ [][GenerateIdempotentDDLs]_vars

\* Table definitions for the dependency order: every table may be
\* interleaved in another one and may hold a foreign key to any table
DepTableNames == {TName(i) : i \in 1..NumDepTables}

\* the definition of table t interleaved in parent ("" for none) and holding
\* a foreign key to ref ("" for none)
DepTableStmt(t, parent, ref) ==
    CreateTable(t, <<IdColumn>>,
                IF ref = "" THEN <<>> ELSE <<ForeignKey("fk", <<"id">>, ref, <<"id">>, "")>>,
                parent, "")

\* the definitions of all tables, with at most MaxDeps dependencies in all
DepUniverses ==
    LET targets == {""} \cup DepTableNames
        count(f) == Cardinality({t \in DepTableNames : f[t] # ""})
    IN {[t \in DepTableNames |-> DepTableStmt(t, parent[t], ref[t])] :
           <<parent, ref>> \in
               {pr \in [DepTableNames -> targets] \X [DepTableNames -> targets] :
                   /\ \A t \in DepTableNames : pr[1][t] # t
                   /\ count(pr[1]) + count(pr[2]) <= MaxDeps}}

\* the text that defines the tables of S as u does
TextOf(u, S) ==
    LET order == SortBy(S, StrLess)
    IN [ok |-> TRUE, stmts |-> [i \in 1..Len(order) |-> u[order[i]]]]

\* GenerateIdempotentDDLs called on two texts that define a table alike
InitDep ==
    /\ pc = "dumped"
    /\ \E u \in DepUniverses, in \in [DepTableNames -> {"current", "desired", "both", "neither"}] :
           /\ database = TextOf(u, {t \in DepTableNames : in[t] \in {"current", "both"}})
           /\ options = [DesiredDDLs |-> TextOf(u, {t \in DepTableNames : in[t] \in {"desired", "both"}}),
                         DryRun |-> FALSE, Export |-> FALSE, EnableDrop |-> TRUE,
                         Config |-> NoConfig]
    /\ currentDDLs = database
    /\ current = EmptySchema
    /\ desired = EmptySchema
    /\ ddls = <<>>
    /\ calls = <<>>
    /\ output = <<>>

SpecDep == InitDep /\ [][GenerateIdempotentDDLs]_vars

\* Definitions for the filter: the second table may be interleaved in the
\* first one or hold a foreign key to it, the index is on either table
FilterTableStmts(t) ==
    IF t = TName(1)
    THEN {CreateTable(t, <<IdColumn>>, <<>>, "", ""),
          CreateTable(t, <<IdColumn, Col("a", "INT64", FALSE, "")>>, <<>>, "", "")}
    ELSE {CreateTable(t, <<IdColumn>>, <<>>, "", ""),
          CreateTable(t, <<IdColumn>>, <<>>, TName(1), "ON DELETE CASCADE"),
          CreateTable(t, <<IdColumn>>, <<ForeignKey("fk", <<"id">>, TName(1), <<"id">>, "")>>, "", "")}

FilterIndexStmts(i) == {CreateIndex(i, t, <<"id">>, FALSE, FALSE, <<>>) : t \in TableNames}

FilterTexts ==
    Texts(TableNames \cup IndexNames,
          LAMBDA k : IF k \in TableNames THEN FilterTableStmts(k) ELSE FilterIndexStmts(k))

\* a list of table names: none, one name, or all names
NameLists == {<<>>} \cup {<<t>> : t \in TableNames} \cup {SortBy(TableNames, StrLess)}

Configs == [TargetTables : NameLists, SkipTables : NameLists]

\* GenerateIdempotentDDLs called on two texts with a filter
InitFilter ==
    /\ pc = "dumped"
    /\ database \in FilterTexts
    /\ currentDDLs = database
    /\ options \in [DesiredDDLs : FilterTexts, DryRun : {FALSE}, Export : {FALSE},
                    EnableDrop : {TRUE}, Config : Configs]
    /\ current = EmptySchema
    /\ desired = EmptySchema
    /\ ddls = <<>>
    /\ calls = <<>>
    /\ output = <<>>

SpecFilter == InitFilter /\ [][GenerateIdempotentDDLs]_vars

\* Definitions for ALTER TABLE: the first table varies in the columns it
\* declares after id, in its constraints (a CHECK, a FOREIGN KEY, their
\* fields, a name that changes its kind), and in its primary key, parent,
\* interleave ON DELETE and row deletion policy; the other tables are plain.
AlterTableNames == {TName(i) : i \in 1..NumAlterTables}

AlterColumns ==
    {<<>>, <<Col("a", "INT64", FALSE, "")>>,
     <<Col("a", "INT64", FALSE, ""), Col("b", "INT64", FALSE, "")>>,
     <<Col("b", "INT64", FALSE, ""), Col("a", "INT64", FALSE, "")>>}

AlterConstraints ==
    {<<>>,
     <<Check("ck", "id > 0")>>,
     <<Check("ck", "id > 1")>>,
     <<ForeignKey("fk", <<"id">>, TName(2), <<"id">>, "")>>,
     <<ForeignKey("fk", <<"id">>, TName(2), <<"id">>, "ON DELETE CASCADE")>>,
     <<ForeignKey("fk", <<"id">>, TName(NumAlterTables), <<"id">>, "")>>,
     <<ForeignKey("fk", <<"a">>, TName(2), <<"id">>, "")>>,
     <<ForeignKey("ck", <<"id">>, TName(2), <<"id">>, "")>>,
     <<Check("ck", "id > 0"), ForeignKey("fk", <<"id">>, TName(2), <<"id">>, "")>>,
     <<Check("ck", "id > 1"), ForeignKey("fk", <<"id">>, TName(2), <<"id">>, "ON DELETE CASCADE")>>}

AlterTableStmts(t) ==
    IF t = TName(1)
    THEN {CreateTable(t, <<IdColumn>> \o cols, <<>>, "", "") : cols \in AlterColumns}
         \cup {CreateTable(t, <<IdColumn, Col("a", "INT64", FALSE, "")>>, cons, "", "") :
                   cons \in AlterConstraints}
         \cup {[CreateTable(t, <<IdColumn, Col("a", "INT64", FALSE, "")>>, <<>>, "", "")
                   EXCEPT !.PrimaryKeys = <<"id", "a">>],
               CreateTable(t, <<IdColumn>>, <<>>, TName(2), ""),
               CreateTable(t, <<IdColumn>>, <<>>, TName(2), "ON DELETE CASCADE"),
               [CreateTable(t, <<IdColumn>>, <<>>, "", "")
                   EXCEPT !.RdpColumn = "id", !.RdpDays = 1],
               [CreateTable(t, <<IdColumn>>, <<>>, "", "")
                   EXCEPT !.RdpColumn = "id", !.RdpDays = MaxDays]}
    ELSE {CreateTable(t, <<IdColumn>>, <<>>, "", "")}

AlterTexts == Texts(AlterTableNames, AlterTableStmts)

\* GenerateIdempotentDDLs called on two texts that define the first table
InitAlter ==
    /\ pc = "dumped"
    /\ database \in AlterTexts
    /\ currentDDLs = database
    /\ options \in [DesiredDDLs : AlterTexts, DryRun : {FALSE}, Export : {FALSE},
                    EnableDrop : {TRUE}, Config : {NoConfig}]
    /\ current = EmptySchema
    /\ desired = EmptySchema
    /\ ddls = <<>>
    /\ calls = <<>>
    /\ output = <<>>

SpecAlter == InitAlter /\ [][GenerateIdempotentDDLs]_vars

\* Definitions for the names of constraints: the table constraints of the
\* first table are named or not, two of them may share a name, and a name
\* may have the form of a synthesized one
ParseConstraints ==
    {Check("", "id > 0"),
     Check("", "id > 1"),
     ForeignKey("", <<"id">>, TName(2), <<"id">>, ""),
     Check("ck", "id > 0"),
     ForeignKey("ck", <<"id">>, TName(2), <<"id">>, ""),
     Check("CK_" \o TName(1) \o "_1", "id > 0")}

ParseConstraintLists == UNION {[1..n -> ParseConstraints] : n \in 0..MaxConstraints}

ParseTexts ==
    {[ok |-> TRUE, stmts |-> <<CreateTable(TName(1), <<IdColumn>>, tcs, "", "")>>] :
        tcs \in ParseConstraintLists}

\* GenerateIdempotentDDLs called on a desired text that defines the first
\* table with constraints; the database is empty or holds the plain table
InitParse ==
    /\ pc = "dumped"
    /\ database \in {NoText,
                     [ok |-> TRUE, stmts |-> <<CreateTable(TName(1), <<IdColumn>>, <<>>, "", "")>>]}
    /\ currentDDLs = database
    /\ options \in [DesiredDDLs : ParseTexts, DryRun : {FALSE}, Export : {FALSE},
                    EnableDrop : {TRUE}, Config : {NoConfig}]
    /\ current = EmptySchema
    /\ desired = EmptySchema
    /\ ddls = <<>>
    /\ calls = <<>>
    /\ output = <<>>

SpecParse == InitParse /\ [][GenerateIdempotentDDLs]_vars

\* Texts for a whole run: one table that gains or loses a column or a CHECK
\* constraint, one index on it, and a text that does not parse
RunTableStmts(t) ==
    {CreateTable(t, <<IdColumn>>, <<>>, "", ""),
     CreateTable(t, <<IdColumn, Col("a", "INT64", FALSE, "")>>, <<>>, "", ""),
     CreateTable(t, <<IdColumn>>, <<Check("ck", "id > 0")>>, "", "")}

RunIndexStmts(i) == {CreateIndex(i, TName(1), <<"id">>, FALSE, FALSE, <<>>)}

RunTexts ==
    Texts({TName(1)} \cup {IName(1)},
          LAMBDA k : IF k = TName(1) THEN RunTableStmts(k) ELSE RunIndexStmts(k))
    \cup {[ok |-> FALSE, stmts |-> <<>>]}

\* Run(db, options)
Init ==
    /\ pc = "start"
    /\ database \in RunTexts
    /\ currentDDLs = NoText
    /\ options \in [DesiredDDLs : RunTexts, DryRun : BOOLEAN, Export : BOOLEAN,
                    EnableDrop : BOOLEAN, Config : {NoConfig}]
    /\ current = EmptySchema
    /\ desired = EmptySchema
    /\ ddls = <<>>
    /\ calls = <<>>
    /\ output = <<>>

Spec == Init /\ [][Next]_vars

(***************************************************************************)
(* Reading a plan.                                                         *)
(***************************************************************************)
Generated == pc = "generated"

IsCreateTable(ddl) == ddl[1] = "CREATE" /\ ddl[2] = "TABLE"
IsCreateIndex(ddl) == ddl[1] = "CREATE" /\ ddl[2] # "TABLE"
IsDropTable(ddl) == ddl[1] = "DROP" /\ ddl[2] = "TABLE"
IsDropIndex(ddl) == ddl[1] = "DROP" /\ ddl[2] = "INDEX"
IsAlterTable(ddl) == ddl[1] = "ALTER" /\ ddl[2] = "TABLE"
IsDropColumn(ddl) == IsAlterTable(ddl) /\ ddl[4] = "DROP" /\ ddl[5] = "COLUMN"
IsDropConstraint(ddl) == IsAlterTable(ddl) /\ ddl[4] = "DROP" /\ ddl[5] = "CONSTRAINT"

\* the positions of the plan that hold a statement of the given kind for name
Positions(plan, Kind(_), name) == {i \in 1..Len(plan) : Kind(plan[i]) /\ plan[i][3] = name}

\* the schema after every statement of the plan is applied to current
Result == ApplyDDLs(current, ddls, 1)

\* a second run on (cur, des) returns the empty list, whatever the orders
PlanIsEmpty(cur, des) ==
    \A o \in GenOrders(cur, des) :
        LET g == GenerateDDLs(cur, des, o) IN ~g.overflow /\ Len(g.ddls) = 0

\* every index is on a table of the schema
WellFormed(s) == \A i \in DOMAIN s.Indexes : s.Indexes[i].TableName \in DOMAIN s.Tables

SameColumn(a, b) == a.Type = b.Type /\ a.NotNull = b.NotNull /\ a.Default = b.Default

SameTable(a, b) ==
    /\ DOMAIN a.Columns = DOMAIN b.Columns
    /\ \A c \in DOMAIN a.Columns : SameColumn(a.Columns[c], b.Columns[c])
    /\ a.Constraints = b.Constraints

SameIndex(a, b) ==
    /\ a.TableName = b.TableName
    /\ a.Columns = b.Columns
    /\ a.Unique = b.Unique
    /\ a.NullFiltered = b.NullFiltered
    /\ a.Storing = b.Storing

SameSchema(a, b) ==
    /\ DOMAIN a.Tables = DOMAIN b.Tables
    /\ \A t \in DOMAIN a.Tables : SameTable(a.Tables[t], b.Tables[t])
    /\ DOMAIN a.Indexes = DOMAIN b.Indexes
    /\ \A i \in DOMAIN a.Indexes : SameIndex(a.Indexes[i], b.Indexes[i])

\* no table of both schemas differs in primary key, parent table, interleave
\* ON DELETE or row deletion policy
SameKeys(a, b) ==
    \A t \in (DOMAIN a.Tables) \cap (DOMAIN b.Tables) :
        /\ a.Tables[t].PrimaryKey = b.Tables[t].PrimaryKey
        /\ a.Tables[t].ParentTable = b.Tables[t].ParentTable
        /\ a.Tables[t].OnDelete = b.Tables[t].OnDelete
        /\ a.Tables[t].RowDeletionPolicyColumn = b.Tables[t].RowDeletionPolicyColumn
        /\ a.Tables[t].RowDeletionPolicyDays = b.Tables[t].RowDeletionPolicyDays

(***************************************************************************)
(* The claims.                                                             *)
(***************************************************************************)

\* C1 (Idempotence): once every statement of the plan GenerateDDLs(current,
\* desired) is applied to current, GenerateDDLs(result, desired) is the empty
\* list.  Stated for the schemas in which every index is on a table of its
\* schema, where the database accepts every statement of the plan; the pairs
\* include an index name of both schemas whose table is absent from desired
\* and an index that moves to another table.
C1_Idempotence ==
    Generated /\ WellFormed(current) /\ WellFormed(desired) => PlanIsEmpty(Result, desired)

\* C2 (Convergence): for schemas that do not differ in primary key, parent
\* table, interleave ON DELETE or row deletion policy, applying the plan to
\* current yields desired: the same tables, columns (type, NOT NULL,
\* default), constraints and indexes (table, key columns, uniqueness,
\* null-filtering, storing columns).  Stated for the schemas in which every
\* index is on a table of its schema and for the plans without ALTER COLUMN.
C2_Convergence ==
    /\ Generated
    /\ WellFormed(current) /\ WellFormed(desired)
    /\ SameKeys(current, desired)
    /\ \A i \in 1..Len(ddls) : ~(IsAlterTable(ddls[i]) /\ ddls[i][4] = "ALTER")
    => SameSchema(Result, desired)

\* C3 (No-op on equality): GenerateDDLs(s, s) is the empty list for every
\* schema s, also when s holds an index whose table is not a table of s.
C3_NoOpOnEquality ==
    Generated /\ current = desired => ddls = <<>>

\* C4 (Drop respects safety): with enableDrop = false, the list RunDDLs
\* passes to ExecDDLs holds no DROP TABLE, no DROP INDEX, no ALTER TABLE ...
\* DROP COLUMN and no ALTER TABLE ... DROP CONSTRAINT statement.
C4_DropRespectsSafety ==
    ~options.EnableDrop =>
        \A c \in 1..Len(calls) :
            calls[c].op = "ExecDDLs" =>
                \A i \in 1..Len(calls[c].ddls) :
                    LET ddl == calls[c].ddls[i]
                    IN ~(IsDropTable(ddl) \/ IsDropIndex(ddl)
                         \/ IsDropColumn(ddl) \/ IsDropConstraint(ddl))

\* t holds a foreign key that references r, in schema s
References(s, t, r) ==
    \E n \in DOMAIN s.Tables[t].Constraints :
        /\ s.Tables[t].Constraints[n].Type = "FOREIGN KEY"
        /\ s.Tables[t].Constraints[n].ReferenceTable = r

\* C5 (Parent-before-child): in every plan returned, the CREATE TABLE of an
\* interleaved table comes after the CREATE TABLE of its parent when the plan
\* creates both, whatever the order in which the desired tables are visited.
C5_ParentBeforeChild ==
    Generated =>
        \A i, j \in 1..Len(ddls) :
            /\ IsCreateTable(ddls[i]) /\ IsCreateTable(ddls[j])
            /\ desired.Tables[ddls[i][3]].ParentTable = ddls[j][3]
            => j < i

\* a plan that creates an interleaved table and its parent
C5_Witness ==
    /\ Generated
    /\ \E i, j \in 1..Len(ddls) :
           /\ IsCreateTable(ddls[i]) /\ IsCreateTable(ddls[j])
           /\ desired.Tables[ddls[i][3]].ParentTable = ddls[j][3]

\* C6 (Referenced-before-referencer): in every plan returned, the CREATE
\* TABLE of a table with a FOREIGN KEY to another created table comes after
\* the CREATE TABLE of that table.
C6_ReferencedBeforeReferencer ==
    Generated =>
        \A i, j \in 1..Len(ddls) :
            /\ i # j
            /\ IsCreateTable(ddls[i]) /\ IsCreateTable(ddls[j])
            /\ References(desired, ddls[i][3], ddls[j][3])
            => j < i

\* a plan that creates a chain of two references, the first table of the
\* chain being interleaved as well
C6_Witness ==
    /\ Generated
    /\ \E i, j, k \in 1..Len(ddls) :
           /\ IsCreateTable(ddls[i]) /\ IsCreateTable(ddls[j]) /\ IsCreateTable(ddls[k])
           /\ i # j /\ j # k
           /\ References(desired, ddls[i][3], ddls[j][3])
           /\ References(desired, ddls[j][3], ddls[k][3])
           /\ desired.Tables[ddls[i][3]].ParentTable # ""

\* t is interleaved in p or holds a foreign key to p, in schema s
DependsOn(s, t, p) == s.Tables[t].ParentTable = p \/ References(s, t, p)

\* no table of s depends on itself through a chain of dependencies
RECURSIVE Reaches(_, _, _, _)
Reaches(s, t, p, n) ==
    \/ DependsOn(s, t, p)
    \/ /\ n > 0
       /\ \E m \in DOMAIN s.Tables : DependsOn(s, t, m) /\ Reaches(s, m, p, n - 1)

Acyclic(s) == \A t \in DOMAIN s.Tables : ~Reaches(s, t, t, Cardinality(DOMAIN s.Tables))

C8_DropIndexThenTable ==
    Generated =>
        /\ \A n \in DOMAIN current.Indexes :
               current.Indexes[n].TableName \notin DOMAIN desired.Tables =>
                   /\ Cardinality(Positions(ddls, IsDropIndex, n)) = 1
                   /\ \A i \in Positions(ddls, IsDropIndex, n) :
                          \A j \in Positions(ddls, IsDropTable, current.Indexes[n].TableName) :
                              i < j
        /\ \A i, j \in 1..Len(ddls) : IsDropIndex(ddls[i]) /\ IsDropTable(ddls[j]) => i < j

\* a plan that drops a table of current and an index on it whose name desired
\* holds as well
C8_Witness ==
    /\ Generated
    /\ \E n \in (DOMAIN current.Indexes) \cap (DOMAIN desired.Indexes) :
           /\ current.Indexes[n].TableName \in DOMAIN current.Tables
           /\ current.Indexes[n].TableName \notin DOMAIN desired.Tables
           /\ Positions(ddls, IsDropTable, current.Indexes[n].TableName) # {}

Range(seq) == {seq[i] : i \in 1..Len(seq)}

\* the filter rule: not in the skip list, and in the target list when there is one
InScope(t, config) ==
    /\ t \notin Range(config.SkipTables)
    /\ (config.TargetTables = <<>> \/ t \in Range(config.TargetTables))

\* s with the tables and indexes of out-of-scope tables left out
Scoped(s, config) ==
    [Tables |-> [t \in {x \in DOMAIN s.Tables : InScope(x, config)} |-> s.Tables[t]],
     Indexes |-> [i \in {x \in DOMAIN s.Indexes : InScope(s.Indexes[x].TableName, config)} |->
                     s.Indexes[i]]]

\* C9 (Filter rule): filterSchema keeps a table iff its name is not in
\* SkipTables and TargetTables is empty or holds it (the skip list wins), keeps
\* an index iff the name of its table passes the same rule, and no statement
\* of the plan creates, alters or drops a table the rule excludes.
C9_FilterRule ==
    Generated =>
        /\ current = Scoped(ParseDDLs(currentDDLs).schema, options.Config)
        /\ desired = Scoped(ParseDDLs(options.DesiredDDLs).schema, options.Config)
        /\ \A i \in 1..Len(ddls) :
               IsCreateTable(ddls[i]) \/ IsDropTable(ddls[i]) \/ IsAlterTable(ddls[i])
                   => InScope(ddls[i][3], options.Config)

\* a non-empty plan under a filter that names a table of the desired text in
\* both lists
C9_Witness ==
    /\ Generated
    /\ Len(ddls) > 0
    /\ \E t \in DOMAIN ParseDDLs(options.DesiredDDLs).schema.Tables :
           t \in Range(options.Config.SkipTables) /\ t \in Range(options.Config.TargetTables)

\* the table a statement of a plan for current schema cur is on
TableOf(ddl, cur) ==
    IF IsDropIndex(ddl) THEN cur.Indexes[ddl[3]].TableName
    ELSE IF IsCreateIndex(ddl) THEN ddl[IndexFrom(ddl, "ON", 1) + 1]
    ELSE ddl[3]

\* C10 (Filter commutativity): the plan computed from the filtered schemas
\* holds the statements of the plan computed from the unfiltered schemas
\* that are on in-scope tables and on indexes of in-scope tables, and no
\* others.
C10_FilterCommutes ==
    Generated =>
        LET cs == ParseDDLs(currentDDLs).schema
            ds == ParseDDLs(options.DesiredDDLs).schema
            unfiltered == GenerateDDLs(cs, ds, CHOOSE o \in GenOrders(cs, ds) : TRUE)
        IN ~unfiltered.overflow =>
               Range(ddls) = {ddl \in Range(unfiltered.ddls) : InScope(TableOf(ddl, cs), options.Config)}

\* C11 (Index modification): for every index name of both schemas whose
\* definitions differ (table, key columns, unique, null-filtered, storing)
\* the plan holds a DROP INDEX for the name and, later, the CREATE INDEX of the
\* desired definition; when the definitions are equal it holds neither.
\* Stated for the schemas in which every index is on a table of its schema.
C11_IndexModification ==
    Generated /\ WellFormed(current) /\ WellFormed(desired) =>
        \A n \in (DOMAIN current.Indexes) \cap (DOMAIN desired.Indexes) :
            IF SameIndex(current.Indexes[n], desired.Indexes[n])
            THEN /\ Positions(ddls, IsDropIndex, n) = {}
                 /\ \A i \in 1..Len(ddls) : ~(IsCreateIndex(ddls[i]) /\ n \in Range(ddls[i]))
            ELSE \E i, j \in 1..Len(ddls) :
                     /\ i < j
                     /\ ddls[i] = <<"DROP", "INDEX", n>>
                     /\ IsCreateIndex(ddls[j]) /\ n \in Range(ddls[j])

\* the ALTER TABLE ... ADD CONSTRAINT statement for constraint c of table t
AddConstraintText(t, c) ==
    <<"ALTER", "TABLE", t, "ADD", "CONSTRAINT", c.Name>>
        \o (IF c.Type = "CHECK"
            THEN <<"CHECK", c.Expression>>
            ELSE <<"FOREIGN", "KEY", "(">> \o Join(c.Columns, ",")
                     \o <<")", "REFERENCES", c.ReferenceTable, "(">>
                     \o Join(c.ReferenceColumns, ",") \o <<")">>
                     \o (IF c.OnDelete = "" THEN <<>> ELSE <<c.OnDelete>>))

IsAddConstraint(ddl) == IsAlterTable(ddl) /\ ddl[4] = "ADD" /\ ddl[5] = "CONSTRAINT"

\* C12 (Constraint recreate): for every constraint name of both versions of
\* a table whose definitions differ, the plan holds ALTER TABLE ... DROP
\* CONSTRAINT name and, later, ALTER TABLE ... ADD CONSTRAINT name with the
\* desired definition; when the definitions are equal it holds neither.
C12_ConstraintRecreate ==
    Generated =>
        \A t \in (DOMAIN current.Tables) \cap (DOMAIN desired.Tables) :
            \A n \in (DOMAIN current.Tables[t].Constraints)
                         \cap (DOMAIN desired.Tables[t].Constraints) :
                LET cur == current.Tables[t].Constraints[n]
                    des == desired.Tables[t].Constraints[n]
                    drops == {i \in Positions(ddls, IsDropConstraint, t) : ddls[i][6] = n}
                    adds == {i \in Positions(ddls, IsAddConstraint, t) : ddls[i][6] = n}
                IN IF cur = des
                   THEN drops = {} /\ adds = {}
                   ELSE /\ Cardinality(drops) = 1 /\ Cardinality(adds) = 1
                        /\ \A i \in drops : \A j \in adds :
                               i < j /\ ddls[j] = AddConstraintText(t, des)

\* a plan that recreates a foreign key that differs in its ON DELETE only
C12_Witness ==
    /\ Generated
    /\ \E t \in (DOMAIN current.Tables) \cap (DOMAIN desired.Tables) :
           \E n \in (DOMAIN current.Tables[t].Constraints)
                        \cap (DOMAIN desired.Tables[t].Constraints) :
               LET cur == current.Tables[t].Constraints[n]
                   des == desired.Tables[t].Constraints[n]
               IN /\ cur.Type = "FOREIGN KEY" /\ des.Type = "FOREIGN KEY"
                  /\ cur.OnDelete # des.OnDelete
                  /\ [cur EXCEPT !.OnDelete = des.OnDelete] = des
                  /\ \E i \in 1..Len(ddls) : ddls[i] = AddConstraintText(t, des)

\* C13 (Cycle handling): when the tables to create hold a dependency cycle
\* through parent or foreign-key references (a table whose foreign key
\* references itself included), plan generation terminates: processTable
\* never recurses without end.
C13_CycleHandling == pc # "overflow"

\* C14 (Determinism): GenerateDDLs returns the same statement sequence for
\* the same pair of schemas whatever the iteration order of the maps: the
\* plan of a run is the plan of every other visiting order.
C14_Determinism ==
    Generated =>
        \A o \in GenOrders(current, desired) : GenerateDDLs(current, desired, o).ddls = ddls

IsAddColumn(ddl) == IsAlterTable(ddl) /\ ddl[4] = "ADD" /\ ddl[5] = "COLUMN"

\* C15 (Added-column order): when desired adds several columns to a table of
\* current, the ALTER TABLE ... ADD COLUMN statements are in the plan in the
\* order in which the desired CREATE TABLE declares the columns.
C15_AddedColumnOrder ==
    Generated =>
        \A i, j \in 1..Len(ddls) :
            /\ IsAddColumn(ddls[i]) /\ IsAddColumn(ddls[j])
            /\ ddls[i][3] = ddls[j][3]
            /\ i < j
            => desired.Tables[ddls[i][3]].Columns[ddls[i][6]].Order
                   < desired.Tables[ddls[j][3]].Columns[ddls[j][6]].Order

\* C16 (Read-only modes): in Run, when Export is set, or DryRun is set, or
\* the generated plan is empty, no ExecDDLs call is made; the only call made
\* on the database is one DumpDDLs; with Export set no plan is generated.
C16_ReadOnlyModes ==
    /\ options.Export \/ options.DryRun \/ ddls = <<>> =>
           calls \in {<<>>, <<[op |-> "DumpDDLs", ddls |-> <<>>]>>}
    /\ options.Export =>
           /\ pc \in {"start", "dumped", "done", "fatal"}
           /\ ddls = <<>> /\ current = EmptySchema /\ desired = EmptySchema

\* a dry run that has shown a plan with statements in it
C16_Witness ==
    /\ pc = "done"
    /\ options.DryRun /\ ~options.Export
    /\ Len(ddls) > 0
    /\ Len(output) > Len(ddls)
    /\ calls = <<[op |-> "DumpDDLs", ddls |-> <<>>]>>

\* every table of s rendered with generateCreateTable, then every index with
\* generateCreateIndex
RenderAll(s) ==
    LET tables == SortBy(DOMAIN s.Tables, StrLess)
        indexes == SortBy(DOMAIN s.Indexes, StrLess)
    IN [i \in 1..Len(tables) |-> generateCreateTable(s.Tables[tables[i]])]
       \o [i \in 1..Len(indexes) |-> generateCreateIndex(s.Indexes[indexes[i]])]

\* C17 (Parse-render-parse round trip): rendering every table of a parsed
\* schema with generateCreateTable and every index with generateCreateIndex
\* and reading the statements back gives a schema equal to the original.
C17_RoundTrip ==
    Generated => ApplyDDLs(EmptySchema, RenderAll(desired), 1) = desired

IsAlterColumn(ddl) == IsAlterTable(ddl) /\ ddl[4] = "ALTER" /\ ddl[5] = "COLUMN"

\* C18 (Column attribute change): for every column of both versions of a
\* table whose NOT NULL flag or DEFAULT differs while its type is the same,
\* the plan holds an ALTER TABLE ... ALTER COLUMN statement for the column;
\* a column whose type differs gets exactly one ALTER COLUMN statement, with
\* the desired type and NOT NULL flag.
C18_ColumnAttributeChange ==
    Generated =>
        \A t \in (DOMAIN current.Tables) \cap (DOMAIN desired.Tables) :
            \A c \in (DOMAIN current.Tables[t].Columns) \cap (DOMAIN desired.Tables[t].Columns) :
                LET cur == current.Tables[t].Columns[c]
                    des == desired.Tables[t].Columns[c]
                    alters == {i \in Positions(ddls, IsAlterColumn, t) : ddls[i][6] = c}
                IN /\ cur.Type = des.Type /\ (cur.NotNull # des.NotNull \/ cur.Default # des.Default)
                      => alters # {}
                   /\ cur.Type # des.Type =>
                          /\ Cardinality(alters) = 1
                          /\ \A i \in alters :
                                 /\ ddls[i][7] = des.Type
                                 /\ Contains(ddls[i], <<"NOT", "NULL">>) = des.NotNull

\* the tables of both schemas that differ in primary key, parent table,
\* interleave ON DELETE or row deletion policy
KeysDiffer(t) ==
    LET only(s) == [Tables |-> [x \in {t} |-> s.Tables[x]], Indexes |-> EmptyMap]
    IN /\ t \in (DOMAIN current.Tables) \cap (DOMAIN desired.Tables)
       /\ ~SameKeys(only(current), only(desired))

\* something the run has written, on its output or in its plan, names the
\* table and is not a DDL statement
Warned(t) ==
    \/ \E i \in 1..Len(output) : t \in Range(output[i])
    \/ \E i \in 1..Len(ddls) : t \in Range(ddls[i]) /\ ddls[i][1] \notin {"CREATE", "DROP", "ALTER"}

\* C19 (Unsupported change): for every table of both schemas whose primary
\* key, parent table, interleave ON DELETE or row deletion policy differs,
\* the differ emits a warning for the table, and no DROP TABLE or CREATE
\* TABLE for it.
C19_UnsupportedChange ==
    Generated =>
        \A t \in DOMAIN current.Tables :
            KeysDiffer(t) =>
                /\ Warned(t)
                /\ Positions(ddls, IsDropTable, t) = {}
                /\ Positions(ddls, IsCreateTable, t) = {}

\* C20 (Constraint drops precede table drops): in every plan, the ALTER
\* TABLE ... DROP CONSTRAINT of a foreign key on a kept table that references
\* a table being dropped precedes the DROP TABLE of the referenced table.
C20_ConstraintDropBeforeTableDrop ==
    Generated =>
        \A i, j \in 1..Len(ddls) :
            /\ IsDropConstraint(ddls[i]) /\ IsDropTable(ddls[j])
            /\ ddls[i][3] \in DOMAIN desired.Tables
            /\ LET c == current.Tables[ddls[i][3]].Constraints[ddls[i][6]]
               IN c.Type = "FOREIGN KEY" /\ c.ReferenceTable = ddls[j][3]
            => i < j

\* the place of an ALTER TABLE statement in the order ADD COLUMN, ALTER
\* COLUMN, DROP COLUMN, DROP CONSTRAINT, ADD CONSTRAINT
AlterStage(ddl) ==
    IF IsAddColumn(ddl) THEN 1
    ELSE IF IsAlterColumn(ddl) THEN 2
    ELSE IF IsDropColumn(ddl) THEN 3
    ELSE IF IsDropConstraint(ddl) THEN 4
    ELSE 5

\* C21 (Alter order within a table): the ALTER TABLE statements of a table
\* of both schemas are in the plan in the order all ADD COLUMN, then all
\* ALTER COLUMN, then all DROP COLUMN, then all DROP CONSTRAINT, then all ADD
\* CONSTRAINT.
C21_AlterOrder ==
    Generated =>
        \A i, j \in 1..Len(ddls) :
            /\ IsAlterTable(ddls[i]) /\ IsAlterTable(ddls[j])
            /\ ddls[i][3] = ddls[j][3]
            /\ i < j
            => AlterStage(ddls[i]) <= AlterStage(ddls[j])

\* the positions of calls that hold a call of operation op
CallsOf(op) == {c \in 1..Len(calls) : calls[c].op = op}

\* RunDDLs has printed the statement with the skipped prefix
PrintedSkipped(ddl) == \E i \in 1..Len(output) : output[i] = <<"-- Skipped:">> \o ddl

\* C22 (Execution order): in Run, DumpDDLs is called once, before the plan
\* is generated; ExecDDLs is called at most once, only in a run without
\* Export and DryRun whose plan is generated and not empty, and the one list
\* it receives is the plan without the withheld statements, the others in
\* their order.
C22_ExecutionOrder ==
    /\ Cardinality(CallsOf("DumpDDLs")) <= 1
    /\ pc # "start" => calls # <<>> /\ calls[1].op = "DumpDDLs"
    /\ Cardinality(CallsOf("ExecDDLs")) <= 1
    /\ \A c \in CallsOf("ExecDDLs") :
           /\ c = 2
           /\ pc \in {"done", "fatal"}
           /\ ~options.Export /\ ~options.DryRun
           /\ Len(ddls) > 0
           /\ calls[c].ddls = SelectSeq(ddls, LAMBDA ddl : ~PrintedSkipped(ddl))

\* a run that has sent a plan of which a statement was withheld and at least
\* two were not
C22_Witness ==
    /\ pc = "done"
    /\ \E c \in CallsOf("ExecDDLs") :
           Len(calls[c].ddls) >= 2 /\ Len(calls[c].ddls) < Len(ddls)

\* C23 (Parse failure): when the current or the desired text fails to
\* parse, GenerateIdempotentDDLs returns an error and no statement list (the
\* error of the current text when both fail), no schema is diffed, and Run
\* makes no ExecDDLs call.
C23_ParseFailure ==
    /\ pc \notin {"start", "dumped"} /\ ~options.Export /\ CallsOf("DumpDDLs") # {}
       /\ (~currentDDLs.ok \/ ~options.DesiredDDLs.ok)
       /\ calls[1].op = "DumpDDLs" /\ pc # "fatal"
       => /\ pc = "exit1"
          /\ ddls = <<>> /\ current = EmptySchema /\ desired = EmptySchema
          /\ output = << <<IF ~currentDDLs.ok THEN "failed to parse current DDLs"
                           ELSE "failed to parse desired DDLs">> >>
    /\ ~database.ok \/ ~options.DesiredDDLs.ok => CallsOf("ExecDDLs") = {}
    /\ pc = "exit1" => ~currentDDLs.ok \/ ~options.DesiredDDLs.ok

\* a run ended by the error of the current text, neither text being parseable
C23_Witness ==
    /\ pc = "exit1"
    /\ ~currentDDLs.ok /\ ~options.DesiredDDLs.ok
    /\ output = << <<"failed to parse current DDLs">> >>

\* DumpDDLs has failed with the error err
DumpFailed(err) == \E i \in 1..Len(output) : output[i] = <<"Error on DumpDDLs:", err>>

\* C24 (Export bootstrap): in Run with Export set, when DumpDDLs fails with a
\* database-not-found error the run takes the current DDL as empty and
\* finishes normally; every other DumpDDLs error ends the run as a failure
\* before a plan is generated or executed.
C24_ExportBootstrap ==
    /\ options.Export /\ DumpFailed("database not found") => pc # "fatal"
    /\ \A err \in DumpErrors \ {"database not found"} :
           DumpFailed(err) => pc = "fatal" /\ ddls = <<>> /\ CallsOf("ExecDDLs") = {}

\* C25 (Dry run marks skipped statements): the dry-run output marks with
\* the skipped prefix exactly the statements that RunDDLs would withhold from
\* execution for the same plan and enable_drop, and prints every other
\* statement unmarked; with enable_drop set nothing is marked.
C25_DryRunMarks ==
    pc = "done" /\ options.DryRun /\ ~options.Export /\ Len(ddls) > 0 =>
        /\ Len(output) = Len(ddls) + 1
        /\ \A i \in 1..Len(ddls) :
               output[i + 1] = IF Withheld(ddls[i], options.EnableDrop)
                               THEN <<"-- Skipped:">> \o ddls[i]
                               ELSE ddls[i]

\* the table constraints of the CREATE TABLE statement of table t in the
\* desired text
DesiredConstraintsOf(t) ==
    LET stmts == options.DesiredDDLs.stmts
        i == CHOOSE k \in 1..Len(stmts) : stmts[k].stmt = "CreateTable" /\ stmts[k].Name = t
    IN stmts[i].TableConstraints

\* CK_<table>_<n> or FK_<table>_<n> for the constraint at position i (from
\* 1) of the definition: n counts the constraints before it
OrdinalName(t, tc, i) ==
    (IF tc.Kind = "Check" THEN "CK_" ELSE "FK_") \o t \o "_" \o ToString(i - 1)

\* C26 (Synthesized constraint names): every unnamed CHECK or FOREIGN KEY
\* constraint of a CREATE TABLE is stored under CK_<table>_<n> or
\* FK_<table>_<n>, n being the ordinal position of the constraint among the
\* table constraints of the definition, also when earlier constraints of the
\* definition share a name.
C26_SynthesizedNames ==
    Generated =>
        \A t \in DOMAIN desired.Tables :
            LET tcs == DesiredConstraintsOf(t)
            IN \A i \in 1..Len(tcs) :
                   tcs[i].Name = "" =>
                       /\ OrdinalName(t, tcs[i], i) \in DOMAIN desired.Tables[t].Constraints
                       /\ desired.Tables[t].Constraints[OrdinalName(t, tcs[i], i)].Type
                              = (IF tcs[i].Kind = "Check" THEN "CHECK" ELSE "FOREIGN KEY")

\* C27 (No constraint is lost on parse): for every CREATE TABLE whose
\* explicitly named constraints have pairwise different names, the
\* constraint map of the table has one entry per table constraint of the
\* statement: a synthesized name never equals the name of another
\* constraint of the table.
C27_NoConstraintLost ==
    Generated =>
        \A t \in DOMAIN desired.Tables :
            LET tcs == DesiredConstraintsOf(t)
            IN (\A i, j \in 1..Len(tcs) :
                    tcs[i].Name # "" /\ tcs[i].Name = tcs[j].Name => i = j)
               => Cardinality(DOMAIN desired.Tables[t].Constraints) = Len(tcs)

\* C28 (Foreign key added to an existing table): in every plan, the CREATE
\* TABLE of a table created by the plan precedes every ALTER TABLE ... ADD
\* CONSTRAINT ... FOREIGN KEY that references it on a table of both schemas.
C28_ForeignKeyAfterCreate ==
    Generated =>
        \A i, j \in 1..Len(ddls) :
            /\ IsAddConstraint(ddls[i]) /\ ddls[i][7] = "FOREIGN"
            /\ ddls[i][3] \in (DOMAIN current.Tables) \cap (DOMAIN desired.Tables)
            /\ IsCreateTable(ddls[j])
            /\ desired.Tables[ddls[i][3]].Constraints[ddls[i][6]].ReferenceTable = ddls[j][3]
            => j < i

\* the tables of desired that are not tables of current
NewTables == (DOMAIN desired.Tables) \ (DOMAIN current.Tables)

\* the new tables alone, as a schema
NewSchema == [Tables |-> [t \in NewTables |-> desired.Tables[t]], Indexes |-> EmptyMap]

\* C29 (Create set is exact): when the new tables have no dependency cycle,
\* a plan is returned and holds exactly one CREATE TABLE for each table of
\* desired that is absent from current and none for any other table, also
\* when a parent or a referenced table is not among the tables to create.
C29_CreateSetExact ==
    /\ pc = "overflow" => ~Acyclic(NewSchema)
    /\ Generated =>
           /\ \A t \in NewTables : Cardinality(Positions(ddls, IsCreateTable, t)) = 1
           /\ \A i \in 1..Len(ddls) : IsCreateTable(ddls[i]) => ddls[i][3] \in NewTables

\* a plan that creates a table interleaved in a table of current and a table
\* with a foreign key to a table of current
C29_Witness ==
    /\ Generated
    /\ \E t, u \in NewTables :
           /\ desired.Tables[t].ParentTable \in DOMAIN current.Tables
           /\ \E r \in DOMAIN current.Tables : References(desired, u, r)
           /\ Positions(ddls, IsCreateTable, t) # {}
           /\ Positions(ddls, IsCreateTable, u) # {}

\* C30 (Drop and add of a constraint are paired): for every constraint name
\* of both versions of a table, the plan holds a DROP CONSTRAINT for the name
\* if and only if it holds an ADD CONSTRAINT for it, also when the constraint
\* changes kind between CHECK and FOREIGN KEY.
C30_DropAddPaired ==
    Generated =>
        \A t \in (DOMAIN current.Tables) \cap (DOMAIN desired.Tables) :
            \A n \in (DOMAIN current.Tables[t].Constraints)
                         \cap (DOMAIN desired.Tables[t].Constraints) :
                (\E i \in Positions(ddls, IsDropConstraint, t) : ddls[i][6] = n)
                    <=> (\E j \in Positions(ddls, IsAddConstraint, t) : ddls[j][6] = n)

\* a plan that drops a CHECK constraint and adds a FOREIGN KEY of its name
C30_Witness ==
    /\ Generated
    /\ \E t \in (DOMAIN current.Tables) \cap (DOMAIN desired.Tables) :
           \E n \in (DOMAIN current.Tables[t].Constraints)
                        \cap (DOMAIN desired.Tables[t].Constraints) :
               /\ current.Tables[t].Constraints[n].Type = "CHECK"
               /\ desired.Tables[t].Constraints[n].Type = "FOREIGN KEY"
               /\ \E i \in Positions(ddls, IsDropConstraint, t) : ddls[i][6] = n
               /\ \E j \in Positions(ddls, IsAddConstraint, t) :
                      ddls[j][6] = n /\ ddls[j][7] = "FOREIGN"

====
